---- MODULE Spec2Model ----
(***************************************************************************)
(* Model of the adaptive search component of src/src/filter-bug/           *)
(* FilterPanel.tsx (AdvancedSearchComponent): the sliding-window rate      *)
(* limiter, the result cache, the four search strategies and the           *)
(* orchestrating component (debounce, single-flight abort, statistics,     *)
(* local history).                                                         *)
(*                                                                         *)
(* Strings are sequences of one-character strings, so that toLowerCase,    *)
(* startsWith, includes and trim are computed and not assumed.  A result   *)
(* list (T[] / User[]) is a sequence of user ids.  Date.now() is the       *)
(* variable now.                                                           *)
(***************************************************************************)
EXTENDS Integers, Sequences, FiniteSets, TLC

\* ------------------------------------------------------------------ bounds
MaxTime == 3          \* the clock runs over 0..MaxTime
MaxLimit == 2         \* rate limits tried: 1..MaxLimit
MaxWindow == 2        \* window lengths tried: 1..MaxWindow
MaxDuration == 1      \* the cache duration of the directly driven cache
MaxCacheSizeBound == 3 \* cache capacities tried: 1..MaxCacheSizeBound

\* ----------------------------------------------------------------- strings
S0 == << >>
Sa == <<"a">>
SAb == <<"A", "b">>

\* the keys handed to the cache when it is driven directly
CacheKeys == {S0, Sa, SAb}
\* the result lists handed to the cache when it is driven directly
CacheDatas == {<< >>, <<1>>}

Lower(c) ==
  CASE c = "A" -> "a"
    [] c = "B" -> "b"
    [] c = "C" -> "c"
    [] c = "D" -> "d"
    [] c = "J" -> "j"
    [] OTHER -> c

toLowerCase(s) == [i \in 1..Len(s) |-> Lower(s[i])]

startsWith(s, p) == Len(p) <= Len(s) /\ SubSeq(s, 1, Len(p)) = p

includes(s, p) == \E i \in 0..(Len(s) - Len(p)) : SubSeq(s, i + 1, i + Len(p)) = p

\* ---------------------------------------------------------------- variables
VARIABLES
  now,              \* Date.now()
  rateLimit,        \* createRateLimiter: limit
  rateLimitWindow,  \* createRateLimiter: windowMs
  cacheDuration,    \* createSearchCache: duration
  maxCacheSize,     \* createSearchCache: maxSize
  requests,         \* createRateLimiter: requests (timestamps, in push order)
  cache,            \* createSearchCache: cache (a Map, in insertion order)
  call,             \* the last call made on the limiter or the cache, with its return value
  recLog,           \* every timestamp recorded since the last reset (purges do not touch it)
  recentSearches,   \* recentSearchesRef.current (a Map, in insertion order)
  searchMode,       \* the searchMode state
  currentStrategyRef, \* currentStrategyRef.current
  query,            \* the query state (the input's text)
  apiResult,        \* the apiResult state: isLoading, error, results, isDropdownOpen
  searchStats,      \* the searchStats state
  timeoutRef,       \* useDebounce: the armed timer with the arguments it will pass, or None
  live,             \* the fetch that is neither settled nor aborted, or None
  aborted,          \* aborted fetches whose rejection has not run its continuation yet
  nextId,           \* the number the next dispatched search gets
  shown,            \* the search whose resolution wrote the displayed results, 0 if none
  ev,               \* what the last step did
  lastKey           \* the last keystroke that Keystroke delivered: its text, mode and time

config == <<rateLimit, rateLimitWindow, cacheDuration, maxCacheSize>>

orch == <<recentSearches, searchMode, currentStrategyRef, query, apiResult,
          searchStats, timeoutRef, live, aborted, nextId, shown, ev, lastKey>>

vars == <<now, config, requests, cache, call, recLog, orch>>

NoCall == [op |-> "none"]

\* ------------------------------------------------------------ rate limiter
\* cleanup that keeps the timestamp that is exactly windowMs old
cleanupKeepBoundary(reqs, t, windowMs) ==
  SelectSeq(reqs, LAMBDA ts : ~(ts < t - windowMs))

\* cleanup(): drops every timestamp <= Date.now() - windowMs
cleanup(reqs, t, windowMs) ==
  SelectSeq(reqs, LAMBDA ts : ~(ts <= t - windowMs))

\* isLimited with > in place of >=
limitReachedStrict(reqs, limit) == Len(reqs) > limit

\* requests.length >= limit
limitReached(reqs, limit) == Len(reqs) >= limit

Max(a, b) == IF a >= b THEN a ELSE b

\* isLimited(): cleanup, then requests.length >= limit
IsLimitedCall ==
  LET kept == cleanup(requests, now, rateLimitWindow) IN
  /\ requests' = kept
  /\ call' = [op |-> "isLimited", ret |-> limitReached(kept, rateLimit), at |-> now]
  /\ UNCHANGED <<now, config, cache, recLog, orch>>

\* record(): requests.push(Date.now())
RecordCall ==
  /\ Len(recLog) < MaxLimit + 1
  /\ requests' = Append(requests, now)
  /\ recLog' = Append(recLog, now)
  /\ call' = [op |-> "record", at |-> now]
  /\ UNCHANGED <<now, config, cache, orch>>

\* reset(): requests.length = 0
ResetCall ==
  /\ requests' = << >>
  /\ recLog' = << >>
  /\ call' = [op |-> "reset", at |-> now]
  /\ UNCHANGED <<now, config, cache, orch>>

\* limit - requests.length without Math.max
remainingUnclamped(kept, limit) == limit - Len(kept)

\* Math.max(0, limit - requests.length)
remainingOf(kept, limit) == Max(0, limit - Len(kept))

\* remaining(): cleanup, then Math.max(0, limit - requests.length)
RemainingCall ==
  LET kept == cleanup(requests, now, rateLimitWindow) IN
  /\ requests' = kept
  /\ call' = [op |-> "remaining", ret |-> remainingOf(kept, rateLimit), at |-> now]
  /\ UNCHANGED <<now, config, cache, recLog, orch>>

\* ------------------------------------------------------------ result cache
Absent == [hit |-> FALSE]
Found(e) == [hit |-> TRUE, data |-> e.data, timestamp |-> e.timestamp]

\* position of key q in the Map, 0 when absent
MapIndex(m, q) ==
  IF \E i \in 1..Len(m) : m[i].key = q
  THEN CHOOSE i \in 1..Len(m) : m[i].key = q
  ELSE 0

MapHas(m, q) == MapIndex(m, q) # 0

\* Map.prototype.delete
MapDelete(m, q) == SelectSeq(m, LAMBDA e : e.key # q)

\* Map.prototype.set: an existing key keeps its position, a new key goes last
MapSet(m, q, d, t) ==
  LET e == [key |-> q, data |-> d, timestamp |-> t] IN
  IF MapHas(m, q) THEN [m EXCEPT ![MapIndex(m, q)] = e] ELSE Append(m, e)

\* Date.now() - entry.timestamp > duration
Expired(e, t, duration) == t - e.timestamp > duration

\* get that reports an expired entry absent but leaves it in the Map
cacheGetNoDelete(m, q, t, duration) ==
  IF ~MapHas(m, q) THEN [ret |-> Absent, cache |-> m]
  ELSE LET e == m[MapIndex(m, q)] IN
       IF Expired(e, t, duration)
       THEN [ret |-> Absent, cache |-> m]
       ELSE [ret |-> Found(e), cache |-> m]

\* get(query)
cacheGet(m, q, t, duration) ==
  IF ~MapHas(m, q) THEN [ret |-> Absent, cache |-> m]
  ELSE LET e == m[MapIndex(m, q)] IN
       IF Expired(e, t, duration)
       THEN [ret |-> Absent, cache |-> MapDelete(m, q)]
       ELSE [ret |-> Found(e), cache |-> m]

\* the eviction of set with the last key taken for the first
evictLast(m, maxSize) ==
  IF Len(m) >= maxSize /\ Len(m) > 0 /\ m[Len(m)].key # S0
  THEN MapDelete(m, m[Len(m)].key)
  ELSE m

\* the eviction of set: if (cache.size >= maxSize) { firstKey = keys[0];
\* if (firstKey) cache.delete(firstKey) }.  An empty-string key is falsy.
evict(m, maxSize) ==
  IF Len(m) >= maxSize /\ Len(m) > 0 /\ m[1].key # S0
  THEN MapDelete(m, m[1].key)
  ELSE m

\* set(query, data)
cacheSet(m, q, d, t, maxSize) == MapSet(evict(m, maxSize), q, d, t)

\* the test of fuzzyMatch with the case of the letters kept
fuzzyHitExactCase(q, e) ==
  \/ startsWith(q, e.key)
  \/ includes(e.key, q)

\* the test of fuzzyMatch on one entry
fuzzyHit(q, e) ==
  \/ startsWith(toLowerCase(q), toLowerCase(e.key))
  \/ includes(toLowerCase(e.key), toLowerCase(q))

\* fuzzyMatch without the expiry test
fuzzyMatchAnyAge(m, q, t, duration) ==
  LET idx == {i \in 1..Len(m) : fuzzyHit(q, m[i])} IN
  IF idx = {} THEN Absent
  ELSE Found(m[CHOOSE i \in idx : \A j \in idx : i <= j])

\* fuzzyMatch(query): the first entry, in insertion order, that is not expired
\* and whose key is a prefix of the query or contains it
fuzzyMatch(m, q, t, duration) ==
  LET idx == {i \in 1..Len(m) : ~Expired(m[i], t, duration) /\ fuzzyHit(q, m[i])} IN
  IF idx = {} THEN Absent
  ELSE Found(m[CHOOSE i \in idx : \A j \in idx : i <= j])

CacheGetCall ==
  \E q \in CacheKeys :
    LET r == cacheGet(cache, q, now, cacheDuration) IN
    /\ cache' = r.cache
    /\ call' = [op |-> "get", key |-> q, ret |-> r.ret, pre |-> cache, at |-> now]
    /\ UNCHANGED <<now, config, requests, recLog, orch>>

CacheSetCall ==
  \E q \in CacheKeys, d \in CacheDatas :
    /\ cache' = cacheSet(cache, q, d, now, maxCacheSize)
    /\ call' = [op |-> "set", key |-> q, data |-> d, pre |-> cache, at |-> now]
    /\ UNCHANGED <<now, config, requests, recLog, orch>>

CacheFuzzyCall ==
  \E q \in CacheKeys :
    /\ call' = [op |-> "fuzzyMatch", key |-> q,
                ret |-> fuzzyMatch(cache, q, now, cacheDuration), pre |-> cache, at |-> now]
    /\ UNCHANGED <<now, config, requests, cache, recLog, orch>>

\* clear()
CacheClearCall ==
  /\ cache # << >>
  /\ cache' = << >>
  /\ call' = [op |-> "clear", pre |-> cache, at |-> now]
  /\ UNCHANGED <<now, config, requests, recLog, orch>>

\* ------------------------------------------------------------------- clock
Tick ==
  /\ now < MaxTime
  /\ now' = now + 1
  /\ UNCHANGED <<config, requests, cache, call, recLog, orch>>

\* =============================================================== component
minQueryLength == 2   \* the minQueryLength prop (its default)
maxResults == 1       \* the maxResults prop
debounceMs == 1       \* the debounceMs prop
HistoryCap == 20      \* recentSearchesRef keeps at most 20 keys
MaxSearches == 2      \* searches (strategy executions and submits) dispatched in a run
MaxClock == 2         \* the component's clock runs over 0..MaxClock

Null == "null"
None == [id |-> 0]
Modes == {"instant", "balanced", "conservative", "manual"}

Sab == <<"a", "b">>
Sabcd == <<"a", "b", "c", "d">>

Sjxy == <<"j", "@", "x", "y">>

\* the queries performSearch is handed when the strategies are driven directly
StratQueries == {Sab, Sabcd, Sjxy}

\* what the user can make the input's text
Inputs == {S0, Sab, Sabcd}

\* texts that include one too short to search and one of white space only
Ssp == <<" ">>
KeyInputs == {S0, Ssp, Sa, Sab}

\* the users the remote source knows: user.name and user.email
UserIds == {1, 2}
UserName(id) == IF id = 1 THEN SAb ELSE Sabcd
UserEmail(id) == <<"j", "@", "x", "y">>

\* what the endpoint can answer with (before the component's own filter);
\* the objects of one response are new objects: from is the fetch they came with
Answer(ids, from) == [i \in 1..Len(ids) |-> [id |-> ids[i], from |-> from]]
ServerLists == {<<1>>, <<1, 2>>}

ErrRateLimit == "Rate limit exceeded. Please slow down."
ErrLocal == "Showing local results (API unavailable)"
ErrTypeMore == "Type more characters for API search"
ErrRateLocal == "Rate limited. Showing local results."
ErrNoLocal == "No local results. Press Enter for API search."
ErrSubmit == "Search failed. Please try again."
ErrHttp == "HTTP 500"
ErrAbort == "The user aborted a request."

RECURSIVE trimStart(_)
trimStart(s) == IF s # << >> /\ Head(s) = " " THEN trimStart(Tail(s)) ELSE s

RECURSIVE trimEnd(_)
trimEnd(s) == IF s # << >> /\ s[Len(s)] = " " THEN trimEnd(SubSeq(s, 1, Len(s) - 1)) ELSE s

\* String.prototype.trim
trim(s) == trimEnd(trimStart(s))

\* slice(0, maxResults) left out
sliceAll(s, n) == s

\* Array.prototype.slice(0, n)
slice(s, n) == SubSeq(s, 1, IF Len(s) < n THEN Len(s) ELSE n)

\* searchFields.some(...) with the default searchFields ["name", "email"]
matches(u, q) ==
  \/ includes(toLowerCase(UserName(u.id)), toLowerCase(q))
  \/ includes(toLowerCase(UserEmail(u.id)), toLowerCase(q))

\* performApiSearch: the filter and the slice applied to the response
filterResponse(data, q) == slice(SelectSeq(data, LAMBDA u : matches(u, q)), maxResults)

\* Set.prototype.add of each element of seq, in order (a Set keeps one copy of an object)
RECURSIVE addAll(_, _)
addAll(acc, seq) ==
  IF seq = << >> THEN acc
  ELSE addAll(IF \E i \in 1..Len(acc) : acc[i] = Head(seq) THEN acc ELSE Append(acc, Head(seq)),
              Tail(seq))

RECURSIVE scanHistory(_, _, _)
scanHistory(hist, q, acc) ==
  IF hist = << >> THEN acc
  ELSE scanHistory(Tail(hist), q,
                   addAll(acc, SelectSeq(Head(hist).data, LAMBDA u : matches(u, q))))

\* performLocalSearch
performLocalSearch(hist, q) == slice(scanHistory(hist, q, << >>), maxResults)

\* updateStats
updateStats(stats, source) ==
  CASE source = "api" -> [stats EXCEPT !.apiCalls = @ + 1]
    [] source = "cache" -> [stats EXCEPT !.cacheHits = @ + 1]
    [] source = "local" -> [stats EXCEPT !.localSearches = @ + 1]
    [] OTHER -> stats

\* the write to recentSearchesRef without the trim to 20 keys
historySetUntrimmed(hist, q, d) ==
  LET e == [key |-> q, data |-> d]
  IN IF MapHas(hist, q) THEN [hist EXCEPT ![MapIndex(hist, q)] = e] ELSE Append(hist, e)

\* recentSearchesRef.current.set(q, data) and the trim to 20 keys that follows it
historySet(hist, q, d) ==
  LET e == [key |-> q, data |-> d]
      h == IF MapHas(hist, q) THEN [hist EXCEPT ![MapIndex(hist, q)] = e] ELSE Append(hist, e)
  IN IF Len(h) > HistoryCap /\ h[1].key # S0 THEN MapDelete(h, h[1].key) ELSE h

\* the spellings of s in upper and lower case: queries that differ as keys of
\* recentSearchesRef and match the same users
Letters == {"a", "A", "b", "B", "c", "C", "d", "D"}
Variants(s) == {v \in [1..Len(s) -> Letters] : toLowerCase(v) = s}

RECURSIVE SetToSeq(_)
SetToSeq(S) ==
  IF S = {} THEN << >>
  ELSE LET x == CHOOSE y \in S : TRUE IN <<x>> \o SetToSeq(S \ {x})

\* queries searched before, oldest first, and recentSearchesRef after the
\* first n of them were each answered by the endpoint
PastQueries ==
  SetToSeq(Variants(Sab)) \o SetToSeq(Variants(Sabcd) \ {Sabcd}) \o <<Sabcd>>
PastHistory(n) ==
  [i \in 1..n |-> [key |-> PastQueries[i],
                   data |-> filterResponse(Answer(<<1, 2>>, 0), PastQueries[i])]]

\* ------------------------------------------------------------- strategies
Result(d, src, err) == [data |-> d, source |-> src, error |-> err]

\* the rate_limited result without its error message
RateLimitedResultSilent == Result(<< >>, "rate_limited", Null)

\* tryApiSearch when rateLimiter.isLimited()
RateLimitedResult == Result(<< >>, "rate_limited", ErrRateLimit)

\* a strategy that answered without the remote source / that started a fetch
Done(res, c, r) == [remote |-> FALSE, result |-> res, cache |-> c, requests |-> r]
Remote(c, r) == [remote |-> TRUE, result |-> RateLimitedResult, cache |-> c, requests |-> r]

\* tryApiSearch that never finds the limiter limited
tryApiStartUnlimited(r) ==
  LET kept == cleanup(r, now, rateLimitWindow) IN
  [limited |-> FALSE, requests |-> kept]

\* tryApiSearch up to its await: rateLimiter.isLimited()
tryApiStart(r) ==
  LET kept == cleanup(r, now, rateLimitWindow) IN
  [limited |-> limitReached(kept, rateLimit), requests |-> kept]

\* tryApiSearch if its catch returned no error message
tryApiFinishSilent(q, out, c, r) ==
  IF out.ok
  THEN [result |-> Result(out.data, "api", Null),
        cache |-> cacheSet(c, q, out.data, now, maxCacheSize),
        requests |-> Append(r, now), recorded |-> TRUE]
  ELSE [result |-> Result(<< >>, "api", Null),
        cache |-> c, requests |-> r, recorded |-> FALSE]

\* tryApiSearch after its await: record and cache on success, the catch otherwise
tryApiFinish(q, out, c, r) ==
  IF out.ok
  THEN [result |-> Result(out.data, "api", Null),
        cache |-> cacheSet(c, q, out.data, now, maxCacheSize),
        requests |-> Append(r, now), recorded |-> TRUE]
  ELSE [result |-> Result(<< >>, "api", out.message),
        cache |-> c, requests |-> r, recorded |-> FALSE]

\* the fallback of Balanced taken whether or not local history has a match
balancedFallbackAlways(res, hist, q) ==
  IF res.error # Null /\ res.data = << >>
  THEN Result(performLocalSearch(hist, q), "local", ErrLocal)
  ELSE res

\* Balanced: the local fallback applied to what tryApiSearch returned
balancedFallback(res, hist, q) ==
  IF res.error # Null /\ res.data = << >>
  THEN LET localData == performLocalSearch(hist, q) IN
       IF localData # << >> THEN Result(localData, "local", ErrLocal) ELSE res
  ELSE res

\* Instant that answers from the cache when the query is cached
instantStartCacheFirst(q, c, r, hist) ==
  LET g == cacheGet(c, q, now, cacheDuration)
      t == tryApiStart(r)
  IN IF g.ret.hit THEN Done(Result(g.ret.data, "cache", Null), g.cache, r)
     ELSE IF t.limited THEN Done(RateLimitedResult, c, t.requests) ELSE Remote(c, t.requests)

\* createInstantSearchStrategy.execute, up to the fetch
instantStart(q, c, r, hist) ==
  LET t == tryApiStart(r) IN
  IF t.limited THEN Done(RateLimitedResult, c, t.requests) ELSE Remote(c, t.requests)

\* Balanced without the fuzzy lookup
balancedStartExactOnly(q, c, r, hist) ==
  LET g == cacheGet(c, q, now, cacheDuration)
      t == tryApiStart(r)
  IN IF g.ret.hit THEN Done(Result(g.ret.data, "cache", Null), g.cache, r)
     ELSE IF t.limited
          THEN Done(balancedFallback(RateLimitedResult, hist, q), g.cache, t.requests)
          ELSE Remote(g.cache, t.requests)

\* createBalancedSearchStrategy.execute, up to the fetch
balancedStart(q, c, r, hist) ==
  LET g == cacheGet(c, q, now, cacheDuration)
      f == fuzzyMatch(g.cache, q, now, cacheDuration)
      t == tryApiStart(r)
  IN IF g.ret.hit THEN Done(Result(g.ret.data, "cache", Null), g.cache, r)
     ELSE IF f.hit THEN Done(Result(f.data, "cache", Null), g.cache, r)
     ELSE IF t.limited
          THEN Done(balancedFallback(RateLimitedResult, hist, q), g.cache, t.requests)
          ELSE Remote(g.cache, t.requests)

\* the rate-limited answer of Conservative without the local results
conservativeLimitedEmpty(localData) == Result(<< >>, "rate_limited", ErrRateLocal)

\* Conservative: the answer given while the limiter is limited
conservativeLimited(localData) == Result(localData, "rate_limited", ErrRateLocal)

\* Conservative with the cache consulted before the length of the query
conservativeStartCacheFirst(q, c, r, hist) ==
  LET localData == performLocalSearch(hist, q)
      g == cacheGet(c, q, now, cacheDuration)
      f == fuzzyMatch(g.cache, q, now, cacheDuration)
      t == tryApiStart(r)
  IN IF g.ret.hit THEN Done(Result(g.ret.data, "cache", Null), g.cache, r)
     ELSE IF f.hit THEN Done(Result(f.data, "cache", Null), g.cache, r)
     ELSE IF Len(q) <= 3
     THEN Done(Result(localData, "local", IF localData = << >> THEN ErrTypeMore ELSE Null), c, r)
     ELSE IF t.limited THEN Done(conservativeLimited(localData), g.cache, t.requests)
     ELSE Remote(g.cache, t.requests)

\* createConservativeSearchStrategy.execute, up to the fetch
conservativeStart(q, c, r, hist) ==
  LET localData == performLocalSearch(hist, q)
      g == cacheGet(c, q, now, cacheDuration)
      f == fuzzyMatch(g.cache, q, now, cacheDuration)
      t == tryApiStart(r)
  IN IF Len(q) <= 3
     THEN Done(Result(localData, "local", IF localData = << >> THEN ErrTypeMore ELSE Null), c, r)
     ELSE IF g.ret.hit THEN Done(Result(g.ret.data, "cache", Null), g.cache, r)
     ELSE IF f.hit THEN Done(Result(f.data, "cache", Null), g.cache, r)
     ELSE IF t.limited THEN Done(conservativeLimited(localData), g.cache, t.requests)
     ELSE Remote(g.cache, t.requests)

\* Manual with the fuzzy lookup of Balanced
manualStartFuzzy(q, c, r, hist) ==
  LET localData == performLocalSearch(hist, q)
      g == cacheGet(c, q, now, cacheDuration)
      f == fuzzyMatch(g.cache, q, now, cacheDuration)
  IN IF g.ret.hit THEN Done(Result(g.ret.data, "cache", Null), g.cache, r)
     ELSE IF f.hit THEN Done(Result(f.data, "cache", Null), g.cache, r)
     ELSE Done(Result(localData, "local", IF localData = << >> THEN ErrNoLocal ELSE Null),
               g.cache, r)

\* createManualSearchStrategy.execute (it never fetches)
manualStart(q, c, r, hist) ==
  LET localData == performLocalSearch(hist, q)
      g == cacheGet(c, q, now, cacheDuration)
  IN IF g.ret.hit THEN Done(Result(g.ret.data, "cache", Null), g.cache, r)
     ELSE Done(Result(localData, "local", IF localData = << >> THEN ErrNoLocal ELSE Null),
               g.cache, r)

\* the strategies table with the Instant strategy under the conservative mode
strategyStartMiswired(mode, q, c, r, hist) ==
  CASE mode = "instant" -> instantStart(q, c, r, hist)
    [] mode = "balanced" -> balancedStart(q, c, r, hist)
    [] mode = "conservative" -> instantStart(q, c, r, hist)
    [] OTHER -> manualStart(q, c, r, hist)

\* strategies[currentMode].execute, up to the fetch
strategyStart(mode, q, c, r, hist) ==
  CASE mode = "instant" -> instantStart(q, c, r, hist)
    [] mode = "balanced" -> balancedStart(q, c, r, hist)
    [] mode = "conservative" -> conservativeStart(q, c, r, hist)
    [] OTHER -> manualStart(q, c, r, hist)

\* the same with rateLimiter.record() run for a rejected fetch as well
strategyFinishRecording(mode, q, out, c, r, hist) ==
  LET t == tryApiFinish(q, out, c, r)
      f == [t EXCEPT !.requests = Append(r, now), !.recorded = TRUE]
  IN IF mode = "balanced" THEN [f EXCEPT !.result = balancedFallback(f.result, hist, q)] ELSE f

\* strategies[currentMode].execute, from the settling of the fetch on
strategyFinish(mode, q, out, c, r, hist) ==
  LET f == tryApiFinish(q, out, c, r) IN
  IF mode = "balanced" THEN [f EXCEPT !.result = balancedFallback(f.result, hist, q)] ELSE f

\* ---------------------------------------------------------- performSearch
\* performSearch without the test on currentStrategyRef
neverSuperseded(ref, mode) == FALSE

\* the test that drops a result: currentStrategyRef.current !== currentMode
superseded(ref, mode) == ref # mode

\* performSearch after `await strategy.execute(...)`: ar, stats, hist and sh are
\* apiResult, searchStats, recentSearches and shown as the step has them so far
Apply(ar, stats, hist, sh, res, mode, q, id) ==
  IF superseded(currentStrategyRef, mode)
  THEN [apiResult |-> [ar EXCEPT !.isLoading = FALSE], searchStats |-> stats,
        recentSearches |-> hist, shown |-> sh, applied |-> FALSE]
  ELSE [apiResult |-> [ar EXCEPT !.error = res.error, !.results = res.data,
                                 !.isDropdownOpen = TRUE, !.isLoading = FALSE],
        searchStats |-> updateStats(stats, res.source),
        recentSearches |-> IF res.data # << >> THEN historySet(hist, q, res.data) ELSE hist,
        shown |-> id, applied |-> TRUE]

Search(id, q, mode, kind) ==
  [id |-> id, query |-> q, mode |-> mode, kind |-> kind,
   active |-> (mode = currentStrategyRef), by |-> "", to |-> ""]

\* abortControllerRef.current?.abort() left out
AbortNothing(by, to) == << >>

\* abortControllerRef.current?.abort(): the live fetch, if any, rejects
Abort(by, to) == IF live = None THEN << >> ELSE <<[live EXCEPT !.by = by, !.to = to]>>

\* the resolution that the last step before this one made, if it made one
Before ==
  IF ev.kind = "resolve"
  THEN [mode |-> ev.mode, source |-> ev.source, error |-> ev.error, at |-> ev.at]
  ELSE [mode |-> "none"]

\* what a step that started a fetch did
Dispatched(s) ==
  [kind |-> "dispatch", id |-> s.id, mode |-> s.mode, skind |-> s.kind, query |-> s.query]

Resolved(s, via, res, applied) ==
  [kind |-> "resolve", id |-> s.id, mode |-> s.mode, skind |-> s.kind, via |-> via,
   by |-> s.by, to |-> s.to, active |-> s.active, source |-> res.source,
   applied |-> applied, query |-> s.query, error |-> res.error, at |-> now,
   after |-> Before]

\* performSearch(searchQuery, currentMode), run up to the point where it waits
\* for the fetch, or to its end when the strategy answers without one; ar is
\* apiResult as the caller has left it
PerformSearch(ar, searchQuery, currentMode) ==
  LET q == trim(searchQuery) IN
  IF q = << >> \/ Len(q) < minQueryLength
  THEN /\ apiResult' = [ar EXCEPT !.error = Null, !.results = << >>]
       /\ shown' = 0
       /\ ev' = [kind |-> "other"]
       /\ UNCHANGED <<searchStats, recentSearches, live, aborted, nextId, cache, requests, recLog>>
  ELSE LET s == strategyStart(currentMode, q, cache, requests, recentSearches)
           me == Search(nextId, q, currentMode, "strategy")
           loading == [ar EXCEPT !.error = Null, !.isLoading = TRUE]
           a == Apply(loading, searchStats, recentSearches, shown, s.result, currentMode, q, nextId)
       IN /\ nextId <= MaxSearches
          /\ nextId' = nextId + 1
          /\ cache' = s.cache
          /\ requests' = s.requests
          /\ UNCHANGED recLog
          /\ IF s.remote
             THEN /\ aborted' = Abort("search", currentMode)
                  /\ live' = me
                  /\ apiResult' = loading
                  /\ ev' = Dispatched(me)
                  /\ UNCHANGED <<searchStats, recentSearches, shown>>
             ELSE /\ apiResult' = a.apiResult
                  /\ searchStats' = a.searchStats
                  /\ recentSearches' = a.recentSearches
                  /\ shown' = a.shown
                  /\ ev' = Resolved(me, "sync", s.result, a.applied)
                  /\ UNCHANGED <<live, aborted>>

\* ---------------------------------------------------------------- handlers
\* handleInputChange with e.target.value = newQuery
InputChange(newQuery) ==
    LET q == trim(newQuery)
        ar == [apiResult EXCEPT !.error = Null]
    IN /\ aborted = << >>
       /\ newQuery # query
       /\ query' = newQuery
       /\ UNCHANGED <<now, config, call, searchMode, currentStrategyRef>>
       /\ IF q = << >>
          THEN /\ apiResult' = [ar EXCEPT !.results = << >>, !.isDropdownOpen = FALSE]
               /\ shown' = 0
               /\ ev' = [kind |-> "other"]
               /\ UNCHANGED <<searchStats, recentSearches, live, aborted, nextId, cache,
                              requests, recLog, timeoutRef>>
          ELSE IF searchMode = "manual"
          THEN /\ UNCHANGED timeoutRef
               /\ IF Len(q) >= minQueryLength
                  THEN PerformSearch(ar, q, searchMode)
                  ELSE /\ apiResult' = [ar EXCEPT !.results = << >>]
                       /\ shown' = 0
                       /\ ev' = [kind |-> "other"]
                       /\ UNCHANGED <<searchStats, recentSearches, live, aborted, nextId,
                                      cache, requests, recLog>>
          ELSE /\ apiResult' = [ar EXCEPT !.isLoading = TRUE]
               /\ timeoutRef' = [query |-> newQuery, mode |-> searchMode, due |-> now + debounceMs]
               /\ ev' = [kind |-> "other"]
               /\ UNCHANGED <<searchStats, recentSearches, live, aborted, nextId, cache,
                              requests, recLog, shown>>

\* handleInputChange
HandleInputChange ==
  \E newQuery \in Inputs : InputChange(newQuery) /\ UNCHANGED lastKey

\* handleInputChange for a keystroke that may also leave a text too short to
\* search, with the keystroke noted in lastKey
Keystroke ==
  \E newQuery \in KeyInputs :
    /\ InputChange(newQuery)
    /\ lastKey' = [query |-> newQuery, mode |-> searchMode, at |-> now]

\* the timer of useDebounce fires: callback(...args), that is performSearch(query, mode)
DebounceFire ==
  /\ aborted = << >>
  /\ timeoutRef # None
  /\ now >= timeoutRef.due
  /\ PerformSearch(apiResult, timeoutRef.query, timeoutRef.mode)
  /\ timeoutRef' = None
  /\ UNCHANGED <<now, config, call, searchMode, currentStrategyRef, query, lastKey>>

\* what a fetch can settle with; the objects of a response are new objects
Outcomes(s) ==
  {[ok |-> TRUE, data |-> filterResponse(Answer(ids, s.id), s.query)] : ids \in ServerLists}
    \cup {[ok |-> FALSE, message |-> ErrHttp]}

\* the submit's then without its updateStats("api")
submitStatsNone(stats) == stats

\* the submit's then: updateStats("api")
submitStats(stats) == updateStats(stats, "api")

\* the continuation of a settled fetch: the rest of strategy.execute and of
\* performSearch, or the then/catch/finally of the submit in handleKeyDown
Settle(s, out, via) ==
  IF s.kind = "strategy"
  THEN LET f == strategyFinish(s.mode, s.query, out, cache, requests, recentSearches)
           a == Apply(apiResult, searchStats, recentSearches, shown, f.result,
                      s.mode, s.query, s.id)
       IN /\ cache' = f.cache
          /\ requests' = f.requests
          /\ recLog' = IF f.recorded THEN Append(recLog, now) ELSE recLog
          /\ apiResult' = a.apiResult
          /\ searchStats' = a.searchStats
          /\ recentSearches' = a.recentSearches
          /\ shown' = a.shown
          /\ ev' = Resolved(s, via, f.result, a.applied)
  ELSE IF out.ok
  THEN /\ requests' = Append(requests, now)
       /\ recLog' = Append(recLog, now)
       /\ cache' = cacheSet(cache, s.query, out.data, now, maxCacheSize)
       /\ apiResult' = [apiResult EXCEPT !.results = out.data, !.error = Null,
                                         !.isDropdownOpen = TRUE, !.isLoading = FALSE]
       /\ searchStats' = submitStats(searchStats)
       /\ shown' = s.id
       /\ ev' = Resolved(s, via, Result(out.data, "api", Null), TRUE)
       /\ UNCHANGED recentSearches
  ELSE /\ apiResult' = [apiResult EXCEPT !.isLoading = FALSE,
                          !.error = IF out.message # ErrAbort THEN ErrSubmit ELSE @]
       /\ ev' = Resolved(s, via, Result(<< >>, "none", out.message), out.message # ErrAbort)
       /\ UNCHANGED <<requests, recLog, cache, searchStats, recentSearches, shown>>

\* the live fetch settles: a response, an HTTP error or a transport failure
Response ==
  /\ aborted = << >>
  /\ live # None
  /\ \E out \in Outcomes(live) : Settle(live, out, "response")
  /\ live' = None
  /\ UNCHANGED <<now, config, call, searchMode, currentStrategyRef, query, timeoutRef,
                 aborted, nextId, lastKey>>

\* an aborted fetch rejects with an AbortError; its continuation runs before
\* any other event is handled
AbortDelivery ==
  /\ aborted # << >>
  /\ Settle(Head(aborted), [ok |-> FALSE, message |-> ErrAbort], "abort")
  /\ aborted' = Tail(aborted)
  /\ UNCHANGED <<now, config, call, searchMode, currentStrategyRef, query, timeoutRef,
                 live, nextId, lastKey>>

\* handleKeyDown, key Enter: the manual submit, or handleSelect of the first result
HandleKeyDownEnter ==
  /\ aborted = << >>
  /\ UNCHANGED <<now, config, call, searchMode, currentStrategyRef, timeoutRef, cache,
                 requests, recLog, searchStats, recentSearches, shown, lastKey>>
  /\ IF searchMode = "manual" /\ Len(trim(query)) >= minQueryLength
     THEN /\ nextId <= MaxSearches
          /\ nextId' = nextId + 1
          /\ apiResult' = [apiResult EXCEPT !.isLoading = FALSE]
          /\ aborted' = Abort("search", "manual")
          /\ live' = Search(nextId, trim(query), "manual", "submit")
          /\ ev' = Dispatched(live')
          /\ UNCHANGED query
     ELSE /\ apiResult.results # << >>
          /\ query' = UserName(apiResult.results[1].id)
          /\ ev' = [kind |-> "other"]
          /\ UNCHANGED <<apiResult, aborted, live, nextId>>

\* clearSearch (its button is rendered while query is not empty)
ClearSearch ==
  /\ aborted = << >>
  /\ query # S0
  /\ query' = S0
  /\ apiResult' = [apiResult EXCEPT !.results = << >>, !.isLoading = FALSE,
                                    !.error = Null, !.isDropdownOpen = FALSE]
  /\ aborted' = Abort("clear", "")
  /\ live' = None
  /\ shown' = 0
  /\ ev' = [kind |-> "other"]
  /\ UNCHANGED <<now, config, call, searchMode, currentStrategyRef, timeoutRef, cache,
                 requests, recLog, searchStats, recentSearches, nextId, lastKey>>

\* handleStrategyChange(mode) if it also emptied the cache
HandleStrategyChangeClearing ==
  \E mode \in Modes :
    /\ aborted = << >>
    /\ aborted' = Abort("mode", mode)
    /\ live' = None
    /\ searchMode' = mode
    /\ currentStrategyRef' = mode
    /\ apiResult' = [apiResult EXCEPT !.isLoading = FALSE]
    /\ ev' = [kind |-> "other"]
    /\ cache' = << >>
    /\ UNCHANGED <<now, config, call, query, timeoutRef, requests, recLog,
                   searchStats, recentSearches, nextId, shown, lastKey>>

\* handleStrategyChange(mode), with the effect that copies searchMode into
\* currentStrategyRef when the component has rendered again
HandleStrategyChange ==
  \E mode \in Modes :
    /\ aborted = << >>
    /\ aborted' = Abort("mode", mode)
    /\ live' = None
    /\ searchMode' = mode
    /\ currentStrategyRef' = mode
    /\ apiResult' = [apiResult EXCEPT !.isLoading = FALSE]
    /\ ev' = [kind |-> "other"]
    /\ UNCHANGED <<now, config, call, query, timeoutRef, cache, requests, recLog,
                   searchStats, recentSearches, nextId, shown, lastKey>>

\* time passes; an armed timer fires when it is due
ClockTick ==
  /\ aborted = << >>
  /\ now < MaxClock
  /\ IF timeoutRef = None THEN TRUE ELSE now < timeoutRef.due
  /\ now' = now + 1
  /\ ev' = [kind |-> "other"]
  /\ UNCHANGED <<config, call, cache, requests, recLog, recentSearches, searchMode,
                 currentStrategyRef, query, apiResult, searchStats, timeoutRef, live,
                 aborted, nextId, shown, lastKey>>

\* performSearch(q, searchMode) called with the debounce delay left out: the
\* strategy of the active mode executes q
ExecuteSearch ==
  \E q \in StratQueries :
    /\ aborted = << >>
    /\ PerformSearch(apiResult, q, searchMode)
    /\ UNCHANGED <<now, config, call, searchMode, currentStrategyRef, query, timeoutRef,
                   lastKey>>

\* time passes between two calls of performSearch
StrategyTick ==
  /\ aborted = << >>
  /\ now < MaxClock
  /\ now' = now + 1
  /\ UNCHANGED <<config, requests, cache, call, recLog, orch>>

\* ---------------------------------------------------------- specifications
InitRest ==
  /\ now = 0
  /\ requests = << >>
  /\ cache = << >>
  /\ call = NoCall
  /\ recLog = << >>
  /\ searchMode = "balanced"
  /\ currentStrategyRef = "balanced"
  /\ query = S0
  /\ apiResult = [isLoading |-> FALSE, error |-> Null, results |-> << >>, isDropdownOpen |-> FALSE]
  /\ searchStats = [apiCalls |-> 0, cacheHits |-> 0, localSearches |-> 0]
  /\ timeoutRef = None
  /\ live = None
  /\ aborted = << >>
  /\ nextId = 1
  /\ shown = 0
  /\ ev = [kind |-> "none"]
  /\ lastKey = [query |-> S0, mode |-> "none", at |-> 0]

InitConfig ==
  /\ rateLimit \in 1..MaxLimit
  /\ rateLimitWindow \in 1..MaxWindow
  /\ cacheDuration = MaxDuration
  /\ maxCacheSize \in 1..MaxCacheSizeBound

InitState ==
  /\ recentSearches = << >>
  /\ InitRest

\* the rate limiter driven directly through its four operations
InitLimiter == InitState /\ InitConfig /\ maxCacheSize = 1
NextLimiter == IsLimitedCall \/ RecordCall \/ ResetCall \/ RemainingCall \/ Tick
SpecLimiter == InitLimiter /\ [][NextLimiter]_vars

\* the cache driven directly through get, set, fuzzyMatch and clear
InitCache == InitState /\ InitConfig /\ rateLimit = 1 /\ rateLimitWindow = 1
NextCache == CacheGetCall \/ CacheSetCall \/ CacheFuzzyCall \/ CacheClearCall \/ Tick
SpecCache == InitCache /\ [][NextCache]_vars

\* the four strategies driven through performSearch, mode by mode
InitStrategy ==
  /\ InitState
  /\ rateLimit = 1
  /\ rateLimitWindow \in 1..MaxWindow
  /\ cacheDuration = MaxDuration
  /\ maxCacheSize = MaxCacheSizeBound
NextStrategy ==
  \/ ExecuteSearch
  \/ Response
  \/ AbortDelivery
  \/ HandleStrategyChange
  \/ StrategyTick
SpecStrategy == InitStrategy /\ [][NextStrategy]_vars

\* the strategies driven through performSearch in a component that has
\* searched HistoryCap - 1 queries before
InitHistory ==
  /\ InitRest
  /\ recentSearches = PastHistory(HistoryCap - 1)
  /\ rateLimit = 1
  /\ rateLimitWindow = MaxWindow
  /\ cacheDuration = MaxDuration
  /\ maxCacheSize = MaxCacheSizeBound
SpecHistory == InitHistory /\ [][NextStrategy]_vars

\* the component: AdvancedSearchComponent mounted with defaultStrategy "balanced"
Init ==
  /\ InitState
  /\ rateLimit = 1
  /\ rateLimitWindow = MaxWindow
  /\ cacheDuration = MaxDuration
  /\ maxCacheSize = MaxCacheSizeBound
Next ==
  \/ HandleInputChange
  \/ DebounceFire
  \/ Response
  \/ AbortDelivery
  \/ HandleKeyDownEnter
  \/ ClearSearch
  \/ HandleStrategyChange
  \/ ClockTick
Spec == Init /\ [][Next]_vars

\* the component with a limiter window longer than the run, so that every
\* fetch started so far lies within the window that ends now
InitBudget ==
  /\ InitState
  /\ rateLimit = 1
  /\ rateLimitWindow = MaxClock + 1
  /\ cacheDuration = MaxDuration
  /\ maxCacheSize = MaxCacheSizeBound
SpecBudget == InitBudget /\ [][Next]_vars

\* the component with its keystrokes noted, short and blank texts among them
NextInput ==
  \/ Keystroke
  \/ DebounceFire
  \/ Response
  \/ AbortDelivery
  \/ HandleKeyDownEnter
  \/ ClearSearch
  \/ HandleStrategyChange
  \/ ClockTick
SpecInput == Init /\ [][NextInput]_vars

\* =================================================================== claims
Keys(m) == {m[i].key : i \in 1..Len(m)}
Entries(m) == {m[i] : i \in 1..Len(m)}

\* C1: the cache never holds more than maxCacheSize entries, whatever keys
\* are set (the claim as stated; the code breaks it when the first key is "")
C1_CacheBound == Len(cache) <= maxCacheSize

\* the L records since the last reset were all made at one time t
AllAtOnce == Len(recLog) = rateLimit /\ \A i \in 1..Len(recLog) : recLog[i] = recLog[1]

\* C6: after L records at time t and no others, isLimited() is true at every
\* time in [t, t+W) and false at every time after t+W
C6_Window ==
  (call.op = "isLimited" /\ AllAtOnce) =>
    /\ (call.at < recLog[1] + rateLimitWindow => call.ret)
    /\ (call.at > recLog[1] + rateLimitWindow => ~call.ret)

C6_Witness ==
  /\ call.op = "isLimited" /\ AllAtOnce
  /\ rateLimit = 2 /\ call.at > recLog[1] + rateLimitWindow /\ ~call.ret

\* the timestamps recorded since the last reset that are at least / less than
\* windowMs old at the time of the call
InWindow(closed) ==
  {i \in 1..Len(recLog) :
     IF closed THEN recLog[i] >= call.at - rateLimitWindow
               ELSE recLog[i] > call.at - rateLimitWindow}

\* C7 as stated: isLimited() is true iff at least limit recorded timestamps
\* are >= now - windowMs, a timestamp exactly windowMs old still counting
C7_PurgeBoundary ==
  call.op = "isLimited" => (call.ret <=> Cardinality(InWindow(TRUE)) >= rateLimit)

\* C7 amended: isLimited() removes the timestamps ts <= now - windowMs, so it
\* is true iff at least limit recorded timestamps are > now - windowMs; a
\* timestamp exactly windowMs old no longer counts
C7_PurgeOpenBoundary ==
  call.op = "isLimited" =>
    /\ call.ret <=> Cardinality(InWindow(FALSE)) >= rateLimit
    /\ requests = SelectSeq(recLog, LAMBDA ts : ts > call.at - rateLimitWindow)

\* the boundary timestamp decided the answer
C7_Witness ==
  /\ call.op = "isLimited" /\ ~call.ret
  /\ Cardinality(InWindow(TRUE)) >= rateLimit
  /\ \E i \in 1..Len(recLog) : recLog[i] = call.at - rateLimitWindow

\* the entry get(q) found in the Map was written at least / more than
\* cacheDuration before the call
GetOfOld(strictly) ==
  /\ call.op = "get" /\ MapHas(call.pre, call.key)
  /\ LET ts == call.pre[MapIndex(call.pre, call.key)].timestamp IN
     IF strictly THEN call.at > ts + cacheDuration ELSE call.at >= ts + cacheDuration

GetDropped ==
  /\ ~call.ret.hit
  /\ ~MapHas(cache, call.key)
  /\ Len(cache) = Len(call.pre) - 1

\* C8 as stated: get(q) at any time now >= ts + cacheDuration returns absent
\* and removes the entry
C8_TTL_AtBoundary == GetOfOld(FALSE) => GetDropped

\* C8 amended: get(q) at any time now > ts + cacheDuration returns absent and
\* removes the entry, so size is one smaller afterwards
C8_TTL == GetOfOld(TRUE) => GetDropped

C8_Witness == GetOfOld(TRUE) /\ GetDropped /\ Len(cache) > 0

\* C9: neither get nor fuzzyMatch returns the data of an entry older than
\* cacheDuration
C9_NoStale ==
  (call.op \in {"get", "fuzzyMatch"} /\ call.ret.hit) =>
    /\ call.at - call.ret.timestamp <= cacheDuration
    /\ \E e \in Entries(call.pre) :
         e.data = call.ret.data /\ e.timestamp = call.ret.timestamp

\* fuzzyMatch passed over an expired entry that matches and answered from a
\* later, fresh one
C9_Witness ==
  /\ call.op = "fuzzyMatch" /\ call.ret.hit
  /\ \E i \in 1..Len(call.pre) :
       /\ Expired(call.pre[i], call.at, cacheDuration)
       /\ fuzzyHit(call.key, call.pre[i])
       /\ \E j \in (i + 1)..Len(call.pre) :
            call.pre[j].timestamp = call.ret.timestamp /\ call.pre[j].data = call.ret.data

\* the keys a set call removed from the Map
Evicted == Keys(call.pre) \ Keys(cache)

SetAtCapacity == call.op = "set" /\ Len(call.pre) >= maxCacheSize

\* an unexpired entry was evicted while an expired one stayed in the Map
FreshEvictedStaleKept ==
  /\ \E e \in Entries(call.pre) :
       e.key \in Evicted /\ ~Expired(e, call.at, cacheDuration)
  /\ \E e \in Entries(call.pre) :
       e \in Entries(cache) /\ Expired(e, call.at, cacheDuration)

\* C10 as stated: a set at capacity evicts no unexpired entry while an expired
\* one remains
C10_StaleFirst == SetAtCapacity => ~FreshEvictedStaleKept

\* C10 amended: a set at capacity evicts the first-inserted key (none when
\* that key is the empty string), expired or not; only when the first-inserted
\* entry is the expired one is an expired entry evicted before the insert
C10_FirstEvicted ==
  call.op = "set" =>
    /\ Evicted \subseteq (IF Len(call.pre) >= maxCacheSize THEN {call.pre[1].key} ELSE {})
    /\ (SetAtCapacity /\ call.pre[1].key \notin {S0, call.key}) => Evicted = {call.pre[1].key}

C10_Witness == SetAtCapacity /\ FreshEvictedStaleKept /\ Evicted = {call.pre[1].key}

\* C11: a set at capacity (size >= maxCacheSize) removes exactly one existing
\* entry, the first-inserted one, before the insert, and a set below capacity
\* removes none; get and overwrite leave the order of the keys alone (the claim
\* as stated; a first-inserted empty-string key is not removed)
C11_FIFO ==
  /\ call.op = "set" =>
        cache = MapSet(IF Len(call.pre) >= maxCacheSize THEN Tail(call.pre) ELSE call.pre,
                       call.key, call.data, call.at)
  /\ call.op = "get" => cache \in {call.pre, MapDelete(call.pre, call.key)}

\* the entries fuzzyMatch may answer from: unexpired, and the lower-cased key
\* is a prefix of the lower-cased query or contains it
FuzzyCandidates ==
  {i \in 1..Len(call.pre) :
     /\ call.at - call.pre[i].timestamp <= cacheDuration
     /\ \/ startsWith(toLowerCase(call.key), toLowerCase(call.pre[i].key))
        \/ includes(toLowerCase(call.pre[i].key), toLowerCase(call.key))}

\* C12: fuzzyMatch(query) returns the data of the first entry in insertion
\* order that is unexpired and whose lower-cased key is a prefix of the
\* lower-cased query or contains it, absent iff there is none, and it leaves
\* the Map as it was
C12_FuzzyFirst ==
  call.op = "fuzzyMatch" =>
    /\ call.ret.hit <=> FuzzyCandidates # {}
    /\ call.ret.hit =>
         \E i \in FuzzyCandidates :
           /\ \A j \in FuzzyCandidates : i <= j
           /\ call.ret.data = call.pre[i].data
           /\ call.ret.timestamp = call.pre[i].timestamp
    /\ cache = call.pre

\* fuzzyMatch answered from an entry that is not the first of the Map and that
\* matches the query only when the case of the letters is ignored
C12_Witness ==
  /\ call.op = "fuzzyMatch" /\ call.ret.hit
  /\ 1 \notin FuzzyCandidates
  /\ \E i \in FuzzyCandidates :
       /\ \A j \in FuzzyCandidates : i <= j
       /\ ~startsWith(call.key, call.pre[i].key)
       /\ ~includes(call.pre[i].key, call.key)
       /\ call.pre[i].data # << >>

\* ------------------------------------------------------ component claims
\* the step resolved a search: its strategy answered, its fetch settled, or
\* its aborted fetch rejected
Resolves == ev'.kind = "resolve"

\* the step ran the continuation of a fetch that a later search of the same
\* mode aborted
ResolvesSuperseded ==
  Resolves /\ ev'.via = "abort" /\ ev'.by = "search" /\ ev'.to = ev'.mode

\* C2: the resolution of a search whose fetch a later search of the same mode
\* aborted sets no results, surfaces no error and increments no counter (the
\* claim as stated; the strategy turns the abort into an error result that
\* performSearch applies)
C2_SupersededSilent ==
  [][ResolvesSuperseded =>
       /\ apiResult'.results = apiResult.results
       /\ apiResult'.error = apiResult.error
       /\ searchStats' = searchStats]_vars

\* C3: the displayed results never go back from a later search's to an earlier
\* search's: a response of an earlier search that arrives after a later search
\* has resolved does not replace the later search's results (the claim as
\* stated; a search answered without a fetch does not abort the earlier fetch)
C3_LastDispatchedWins == [][shown' = 0 \/ shown' >= shown]_vars

\* the mode was switched away from the search's mode while its fetch was out
SwitchedAway == ev'.by = "mode" /\ ev'.to # ev'.mode

\* C4: a search dispatched while its mode m was active is applied only if m is
\* still the active mode when its result arrives; if the mode has changed, the
\* result is dropped and results, error, SearchStats and LocalHistory stay as
\* they were
C4_SupersededOnModeChange ==
  [][(Resolves /\ ev'.skind = "strategy" /\ ev'.active) =>
       /\ ev'.applied <=> (currentStrategyRef' = ev'.mode /\ ~SwitchedAway)
       /\ (currentStrategyRef' # ev'.mode \/ SwitchedAway) =>
            /\ apiResult'.results = apiResult.results
            /\ apiResult'.error = apiResult.error
            /\ searchStats' = searchStats
            /\ recentSearches' = recentSearches]_vars

\* a search dispatched in its own mode had its fetch aborted by a switch to
\* another mode, and its result was dropped
C4_Witness ==
  /\ ev.kind = "resolve" /\ ev.skind = "strategy" /\ ev.active
  /\ ev.by = "mode" /\ ev.to # ev.mode /\ currentStrategyRef # ev.mode
  /\ ~ev.applied

\* the counter a source tag stands for went up by one and no other changed
CountedAs(src) ==
  /\ searchStats'.apiCalls = searchStats.apiCalls + (IF src = "api" THEN 1 ELSE 0)
  /\ searchStats'.cacheHits = searchStats.cacheHits + (IF src = "cache" THEN 1 ELSE 0)
  /\ searchStats'.localSearches = searchStats.localSearches + (IF src = "local" THEN 1 ELSE 0)

\* C5: a resolved search that is neither superseded nor cancelled increments
\* exactly the counter of its source tag (rate_limited: none); a superseded or
\* cancelled search increments none; no counter ever decreases (the claim as
\* stated; a cancelled search is counted as an api call or a local search)
C5_StatsAccounting ==
  [][IF Resolves
     THEN IF ev'.applied /\ ev'.via # "abort"
          THEN CountedAs(ev'.source)
          ELSE searchStats' = searchStats
     ELSE searchStats' = searchStats]_vars

\* ------------------------------------------------------- strategy claims
\* the step is performSearch executing the strategy of mode m, up to its
\* answer or to the fetch it starts
Exec(m) ==
  /\ nextId' = nextId + 1
  /\ ev'.kind \in {"dispatch", "resolve"}
  /\ ev'.skind = "strategy"
  /\ ev'.mode = m

\* the step resolved a search (time may pass without another event)
Settles == Resolves /\ ev' # ev

\* the step started a fetch / answered src without starting or aborting one
StartsRemote == ev'.kind = "dispatch" /\ live' # None /\ live'.id = ev'.id /\ live' # live
AnsweredSync(src) ==
  /\ ev'.kind = "resolve" /\ ev'.via = "sync" /\ ev'.source = src
  /\ live' = live /\ aborted' = aborted

\* the cache as the strategy finds it: entries that are not expired
Fresh(e) == now - e.timestamp <= cacheDuration
ExactFresh(q) == \E i \in 1..Len(cache) : cache[i].key = q /\ Fresh(cache[i])
FuzzyFreshAt(q) ==
  {i \in 1..Len(cache) :
     /\ Fresh(cache[i])
     /\ \/ startsWith(toLowerCase(q), toLowerCase(cache[i].key))
        \/ includes(toLowerCase(cache[i].key), toLowerCase(q))}
FuzzyFresh(q) == FuzzyFreshAt(q) # {}
CacheHit(q) == ExactFresh(q) \/ FuzzyFresh(q)

\* the data of the exact entry, failing that of the first fuzzy match
CachedData(q) ==
  IF ExactFresh(q)
  THEN cache[CHOOSE i \in 1..Len(cache) : cache[i].key = q].data
  ELSE cache[CHOOSE i \in FuzzyFreshAt(q) : \A j \in FuzzyFreshAt(q) : i <= j].data

\* rateLimiter.isLimited() would answer true
LimiterLimited ==
  Cardinality({i \in 1..Len(requests) : requests[i] > now - rateLimitWindow}) >= rateLimit

\* the local-history search result for q
LocalResult(q) == performLocalSearch(recentSearches, q)

\* the last step resolved an Instant search with source api (and, if asked,
\* without an error: its remote call succeeded)
FirstWasApi(succeeded) ==
  /\ ev.kind = "resolve" /\ ev.skind = "strategy" /\ ev.mode = "instant"
  /\ ev.source = "api"
  /\ succeeded => ev.error = Null

\* the next Instant search runs inside the window of the first
SecondInWindow == rateLimit = 1 /\ Exec("instant") /\ now < ev.at + rateLimitWindow

SecondRateLimited ==
  /\ AnsweredSync("rate_limited")
  /\ apiResult'.results = << >>
  /\ apiResult'.error # Null
  /\ searchStats' = searchStats

C14_InstantNoCache ==
  [][/\ Exec("instant") =>
          /\ StartsRemote <=> ~LimiterLimited
          /\ ~StartsRemote => AnsweredSync("rate_limited")
          /\ cache' = cache
     /\ (Settles /\ ev'.skind = "strategy" /\ ev'.mode = "instant") =>
          /\ ev'.source \in {"api", "rate_limited"}
          /\ (ev'.via = "response" /\ ev'.error = Null) =>
               \E e \in Entries(cache') :
                 /\ e.key = ev'.query /\ e.timestamp = now
                 /\ ev'.applied => e.data = apiResult'.results]_vars

\* Instant started a fetch for a query that has an unexpired cache entry
C14_Witness ==
  /\ ev.kind = "dispatch" /\ ev.skind = "strategy" /\ ev.mode = "instant"
  /\ ExactFresh(ev.query)

\* C15: in Balanced a query with an unexpired exact entry, failing that an
\* unexpired fuzzy match, is answered from the cache with source cache,
\* cacheHits + 1, no remote call and nothing recorded in the limiter
C15_BalancedCacheFirst ==
  [][(Exec("balanced") /\ CacheHit(ev'.query)) =>
       /\ AnsweredSync("cache")
       /\ apiResult'.results = CachedData(ev'.query)
       /\ requests' = requests /\ recLog' = recLog
       /\ searchStats' = [searchStats EXCEPT !.cacheHits = @ + 1]]_vars

\* Balanced answered from a fuzzy match, the query itself not being a key
C15_Witness ==
  /\ ev.kind = "resolve" /\ ev.via = "sync" /\ ev.mode = "balanced" /\ ev.source = "cache"
  /\ ~MapHas(cache, ev.query)
  /\ apiResult.results # << >> /\ searchStats.cacheHits = 1

\* the step is the continuation of the fetch of a Balanced search
BalancedSettles ==
  /\ Settles /\ ev'.skind = "strategy" /\ ev'.mode = "balanced"
  /\ ev'.via \in {"response", "abort"}

\* the remote call succeeded and its result is returned as it is
RemoteResultKept ==
  /\ ev'.source = "api" /\ ev'.error = Null
  /\ ev'.applied => apiResult'.results = cache'[MapIndex(cache', ev'.query)].data

\* the local-history result is returned with the degraded-mode message
LocalFallback ==
  /\ ev'.source = "local" /\ ev'.error = ErrLocal
  /\ ev'.applied => apiResult'.results = LocalResult(ev'.query)

\* C16 as stated: in Balanced on a cache miss, a remote attempt that yields an
\* error and no results is answered with the local-history result, source
\* local and a degraded-mode message, whether or not local history has
\* matches; a remote attempt that succeeds is returned unchanged, source api
C16_BalancedFallback ==
  [][BalancedSettles =>
       IF recLog' = recLog THEN LocalFallback ELSE RemoteResultKept]_vars

\* C16 amended: the local-history result is returned, with source local and
\* the degraded-mode message, when local history has at least one match; when
\* it has none the failed remote result is returned as it is (source api, no
\* data, the error of the remote call)
C16_BalancedFallbackIfMatches ==
  [][BalancedSettles =>
       IF recLog' # recLog THEN RemoteResultKept
       ELSE IF LocalResult(ev'.query) # << >> THEN LocalFallback
       ELSE /\ ev'.source = "api" /\ ev'.error \in {ErrHttp, ErrAbort}
            /\ ev'.applied => apiResult'.results = << >>]_vars

\* a failed remote call of Balanced was answered from local history
C16_Witness ==
  /\ ev.kind = "resolve" /\ ev.mode = "balanced" /\ ev.via = "response"
  /\ ev.source = "local" /\ ev.applied
  /\ apiResult.results # << >> /\ apiResult.error = ErrLocal

\* C17: Conservative answers a query of length <= 3 from local history only,
\* source local, whatever the cache and the limiter hold, and a longer query
\* with an unexpired exact or fuzzy cache hit from the cache, source cache;
\* neither starts a remote call
C17_ConservativeNeverRemote ==
  [][Exec("conservative") =>
       /\ Len(ev'.query) <= 3 =>
            AnsweredSync("local") /\ apiResult'.results = LocalResult(ev'.query)
       /\ (Len(ev'.query) > 3 /\ CacheHit(ev'.query)) =>
            AnsweredSync("cache") /\ apiResult'.results = CachedData(ev'.query)]_vars

\* Conservative answered a short query from local history although the query
\* was cached and the limiter was not limited
C17_Witness ==
  /\ ev.kind = "resolve" /\ ev.via = "sync" /\ ev.mode = "conservative"
  /\ ev.source = "local" /\ Len(ev.query) <= 3
  /\ ExactFresh(ev.query) /\ ~LimiterLimited

\* C18: in Conservative a query of length > 3 that misses the cache while the
\* limiter is limited starts no remote call and is answered with the
\* local-history result tagged rate_limited; when the limiter is not limited
\* a remote call is started
C18_ConservativeRateLimited ==
  [][(Exec("conservative") /\ Len(ev'.query) > 3 /\ ~CacheHit(ev'.query)) =>
       IF LimiterLimited
       THEN /\ AnsweredSync("rate_limited")
            /\ apiResult'.results = LocalResult(ev'.query)
            /\ apiResult'.error = ErrRateLocal
       ELSE StartsRemote]_vars

\* Conservative answered rate_limited with results found in local history
C18_Witness ==
  /\ ev.kind = "resolve" /\ ev.via = "sync" /\ ev.mode = "conservative"
  /\ ev.source = "rate_limited" /\ Len(ev.query) > 3
  /\ apiResult.results # << >>

\* C19: the Manual strategy never starts a remote call; it answers source
\* cache when the exact query is cached and unexpired, otherwise the
\* local-history result with source local; it records nothing in the limiter
\* and writes nothing into the cache
C19_ManualNeverRemote ==
  [][Exec("manual") =>
       /\ requests' = requests /\ recLog' = recLog
       /\ Entries(cache') \subseteq Entries(cache)
       /\ IF ExactFresh(ev'.query)
          THEN AnsweredSync("cache") /\ apiResult'.results = CachedData(ev'.query)
          ELSE AnsweredSync("local") /\ apiResult'.results = LocalResult(ev'.query)]_vars

\* Manual answered from local history a query that only a fuzzy match would
\* have found in the cache
C19_Witness ==
  /\ ev.kind = "resolve" /\ ev.via = "sync" /\ ev.mode = "manual" /\ ev.source = "local"
  /\ FuzzyFresh(ev.query) /\ ~ExactFresh(ev.query)

\* C20: while the active mode is manual a remote call starts only as the
\* direct effect of a submit (Enter): no keystroke and no debounce timer armed
\* before the switch to manual starts one (the claim as stated; the switch
\* does not cancel the armed timer, which then runs the strategy of the mode
\* it was armed in)
C20_ManualGatesRemote ==
  [][(ev'.kind = "dispatch" /\ searchMode = "manual") => ev'.skind = "submit"]_vars

\* ------------------------------------------------------- submit, cancellation
\* the step is the Enter key starting the fetch of a manual submit / is the
\* continuation of a submit's fetch
SubmitStarts == ev'.kind = "dispatch" /\ ev'.skind = "submit" /\ nextId' = nextId + 1
SubmitSettles == Resolves /\ ev'.skind = "submit"

\* C21: in manual mode Enter on a query of at least minQueryLength characters
\* starts one fetch of the trimmed query. When it succeeds the result is
\* displayed, the cache holds it under the trimmed query (the Manual strategy
\* then answers that query from the cache), one timestamp is recorded and
\* apiCalls grows by exactly 1; when it fails nothing but the error message
\* (and the loading flag) changes
C21_ManualSubmit ==
  [][/\ SubmitStarts =>
          /\ searchMode = "manual"
          /\ Len(trim(query)) >= minQueryLength
          /\ live' # None /\ live'.id = nextId /\ live'.query = trim(query)
          /\ cache' = cache /\ requests' = requests /\ searchStats' = searchStats
     /\ SubmitSettles =>
          IF ev'.error = Null
          THEN /\ live # None /\ live.id = ev'.id /\ ev'.via = "response"
               /\ \E out \in Outcomes(live) : out.ok /\ apiResult'.results = out.data
               /\ apiResult'.error = Null
               /\ MapHas(cache', ev'.query)
               /\ cache'[MapIndex(cache', ev'.query)].data = apiResult'.results
               /\ LET again == strategyStart("manual", ev'.query, cache', requests',
                                             recentSearches')
                  IN ~again.remote /\ again.result.source = "cache"
                       /\ again.result.data = apiResult'.results
               /\ requests' = Append(requests, now)
               /\ searchStats' = [searchStats EXCEPT !.apiCalls = @ + 1]
          ELSE /\ cache' = cache /\ requests' = requests /\ searchStats' = searchStats
               /\ recentSearches' = recentSearches
               /\ apiResult'.results = apiResult.results
               /\ apiResult'.isDropdownOpen = apiResult.isDropdownOpen
               /\ apiResult'.error \in {apiResult.error, ErrSubmit}
               /\ ev'.via = "response" => apiResult'.error = ErrSubmit]_vars

\* a submit has succeeded with a result that is displayed and cached
C21_Witness ==
  /\ ev.kind = "resolve" /\ ev.skind = "submit" /\ ev.error = Null
  /\ apiResult.results # << >>
  /\ searchStats.apiCalls >= 1
  /\ MapHas(cache, ev.query)
  /\ cache[MapIndex(cache, ev.query)].data = apiResult.results

\* the fetches that were aborted and whose rejection is still to be handled
AbortedIds(q) == {q[i].id : i \in 1..Len(q)}

\* C22: at most one fetch is live, and a fetch stops being the live one only
\* by settling or by being aborted: the step that starts a fetch aborts the
\* one that was live before
C22_SingleFlight ==
  [][/\ (live # None /\ live' # live) =>
          \/ live.id \in AbortedIds(aborted')
          \/ Resolves /\ ev'.id = live.id /\ ev'.via = "response"
     /\ (live' # None /\ live' # live) =>
          /\ ev'.kind = "dispatch" /\ ev'.id = live'.id
          /\ live'.id \notin AbortedIds(aborted')
          /\ live # None => (aborted' # << >> /\ aborted'[Len(aborted')].id = live.id
                               /\ aborted'[Len(aborted')].by = "search")]_vars

\* a search has started a fetch while another was live, and aborted that one
C22_Witness ==
  /\ live # None /\ ev.kind = "dispatch" /\ ev.id = live.id
  /\ aborted # << >> /\ aborted[1].by = "search" /\ aborted[1].id < live.id

\* the step is handleStrategyChange aborting the live fetch / is the
\* continuation of a fetch that handleStrategyChange aborted
ModeAborts ==
  /\ live # None /\ aborted = << >> /\ aborted' # << >>
  /\ aborted'[1].id = live.id /\ aborted'[1].by = "mode"
ModeAbortSettles == Resolves /\ ev'.via = "abort" /\ ev'.by = "mode"

\* C23: selecting a mode aborts the outstanding fetch, no fetch is live
\* afterwards, and the aborted fetch is never applied: its continuation
\* leaves the results, the error, the counters and the history as they were
\* (the claim as stated; the strategy turns the abort into an error result
\* that performSearch applies when the fetch belongs to the mode selected)
C23_CancelOnModeSwitch ==
  [][/\ ModeAborts => live' = None
     /\ ModeAbortSettles =>
          /\ ~ev'.applied
          /\ apiResult'.results = apiResult.results
          /\ apiResult'.error = apiResult.error
          /\ searchStats' = searchStats
          /\ recentSearches' = recentSearches]_vars

\* what selecting a mode must leave alone
ModeFrame ==
  /\ cache' = cache
  /\ recentSearches' = recentSearches
  /\ requests' = requests
  /\ searchStats' = searchStats

WritesThrough ==
  /\ ev'.applied
  /\ ev'.source \notin {"rate_limited", "none"}
  /\ apiResult'.results # << >>

\* C25: a resolution is written to the history under its query exactly when
\* it was delivered, its source is not rate_limited and its data is not
\* empty; this includes a successful submit and excludes a rate_limited
\* resolution that carries local data (the claim as stated; performSearch
\* writes whatever the source, and the submit does not write)
C25_HistoryWriteThrough ==
  [][Resolves =>
       IF WritesThrough
       THEN /\ MapHas(recentSearches', ev'.query)
            /\ recentSearches'[MapIndex(recentSearches', ev'.query)].data = apiResult'.results
       ELSE recentSearches' = recentSearches]_vars

\* the history after the step, given that the step wrote to it: the entry of
\* the query replaced in place, or appended, the oldest entry dropped when
\* that makes more than HistoryCap
HistoryAfterWrite ==
  LET q == ev'.query
      e == [key |-> q, data |-> apiResult'.results]
  IN IF MapHas(recentSearches, q)
     THEN [recentSearches EXCEPT ![MapIndex(recentSearches, q)] = e]
     ELSE IF Len(recentSearches) < HistoryCap
     THEN Append(recentSearches, e)
     ELSE Append(Tail(recentSearches), e)

TooShort(q) == Len(trim(q)) < minQueryLength

\* the step puts a typed text into the input (a keystroke, or clearSearch
\* emptying it) / is the debounce timer firing / is Enter, which starts the
\* submit or puts the name of the first result into the input
KeystrokeStep == query' # query /\ query' \in KeyInputs
FireStep == timeoutRef # None /\ timeoutRef' = None
EnterStep == (query' # query /\ query' \notin KeyInputs) \/ SubmitStarts
NoSearch == nextId' = nextId /\ live' \in {live, None} /\ ev'.kind \notin {"dispatch", "resolve"}

\* C27: an input whose trimmed length is below minQueryLength executes no
\* strategy and starts no fetch, whether it arrives by keystroke, by the
\* debounce timer or by Enter, and the displayed result set is empty after
\* the call that handles it (the claim as stated; in a non-manual mode the
\* keystroke leaves the results of the previous search on display until the
\* timer fires)
C27_MinQueryLength ==
  [][/\ (KeystrokeStep /\ TooShort(query')) =>
          NoSearch /\ apiResult'.results = << >>
     /\ (FireStep /\ TooShort(timeoutRef.query)) =>
          NoSearch /\ apiResult'.results = << >>
     /\ (EnterStep /\ TooShort(query)) => NoSearch]_vars

\* ----------------------------------------------------------------- results
\* C28: every result set delivered, from the endpoint, the cache, the
\* history or the submit, has at most maxResults items; so has every set
\* kept in the cache or in the history, from which later results are taken
C28_MaxResults ==
  /\ Len(apiResult.results) <= maxResults
  /\ \A i \in 1..Len(cache) : Len(cache[i].data) <= maxResults
  /\ \A i \in 1..Len(recentSearches) : Len(recentSearches[i].data) <= maxResults

\* a result set of maxResults items has been delivered from the endpoint
C28_Witness ==
  /\ ev.kind = "resolve" /\ ev.applied /\ ev.source = "api"
  /\ Len(apiResult.results) = maxResults

\* C29: after keystrokes in a non-manual mode the timer fires once, debounceMs
\* after the last keystroke, and runs performSearch with the text and the
\* mode of that keystroke; nothing is run for an earlier keystroke (the claim
\* as stated; a keystroke that empties the input returns before
\* debouncedSearch and leaves the timer of the keystroke before it armed)
C29_TrailingEdge ==
  [][(FireStep /\ lastKey.mode \notin {"none", "manual"}) =>
       /\ timeoutRef.query = lastKey.query
       /\ timeoutRef.mode = lastKey.mode
       /\ now = lastKey.at + debounceMs]_vars

\* ---------------------------------------------------------------- failures
\* the step is the continuation of a strategy's fetch that rejected: it was
\* aborted, or it failed and nothing was recorded
RemoteRejected ==
  /\ Settles /\ ev'.skind = "strategy"
  /\ \/ ev'.via = "abort"
     \/ ev'.via = "response" /\ recLog' = recLog

\* C30: whatever the fetch does, the strategy resolves to a result with one
\* of the four sources and either no error or an error message; when the
\* fetch rejected and no fallback took over, the result is empty, has source
\* api and carries a non-empty error message
C30_FailureContained ==
  [][/\ (Settles /\ ev'.skind = "strategy") =>
          /\ ev'.source \in {"cache", "api", "local", "rate_limited"}
          /\ ev'.error # ""
          /\ ev'.applied => apiResult'.error = ev'.error
     /\ (RemoteRejected /\ ev'.source # "local") =>
          /\ ev'.source = "api"
          /\ ev'.error \notin {Null, ""}
          /\ ev'.applied => apiResult'.results = << >>
          /\ cache' = cache /\ requests' = requests]_vars

\* an aborted fetch has been turned into an empty result with source api and
\* the message of the abort, and performSearch has displayed it
C30_Witness ==
  /\ ev.kind = "resolve" /\ ev.skind = "strategy" /\ ev.via = "abort"
  /\ ev.source = "api" /\ ev.error = ErrAbort /\ ev.applied
  /\ apiResult.results = << >> /\ apiResult.error = ErrAbort

\* --------------------------------------------------------------- validation
Blank(q) == trim(q) = << >>

\* the step is the call that settles a text too short to search and not
\* blank: the keystroke itself in manual mode, the debounce timer otherwise
HandlesTooShort ==
  \/ KeystrokeStep /\ searchMode = "manual" /\ TooShort(query') /\ ~Blank(query')
  \/ FireStep /\ TooShort(timeoutRef.query) /\ ~Blank(timeoutRef.query)

\* C31: a blank input yields an empty result set and no message; an input of
\* 1 to minQueryLength - 1 characters yields an empty result set and an
\* informational message (the claim as stated; performSearch and
\* handleInputChange clear the results and set no message in either case)
C31_ValidationOutcome ==
  [][/\ (KeystrokeStep /\ Blank(query')) =>
          apiResult'.results = << >> /\ apiResult'.error = Null
     /\ HandlesTooShort =>
          apiResult'.results = << >> /\ apiResult'.error # Null]_vars

\* ------------------------------------------------------- limiter, remaining
\* the timestamps recorded since the last reset that the purge of a call at
\* time t retains
Retained(log, t) == SelectSeq(log, LAMBDA ts : ts > t - rateLimitWindow)

\* C32: remaining() is max(0, limit - count) for the count of timestamps the
\* purge retains; it lies in 0..limit, is 0 exactly when isLimited() is true
\* at that instant, and right after reset() it is limit and isLimited() is
\* false
C32_Remaining ==
  [][/\ call'.op = "remaining" =>
          /\ requests' = Retained(recLog', call'.at)
          /\ call'.ret = IF rateLimit > Len(Retained(recLog', call'.at))
                         THEN rateLimit - Len(Retained(recLog', call'.at)) ELSE 0
          /\ call'.ret \in 0..rateLimit
          /\ call'.ret = 0 <=> limitReached(cleanup(requests', call'.at, rateLimitWindow),
                                            rateLimit)
     /\ (call.op = "reset" /\ now' = now /\ call' # call) =>
          /\ call'.op = "remaining" => call'.ret = rateLimit
          /\ call'.op = "isLimited" => ~call'.ret]_vars

\* remaining() has answered 0 with more timestamps retained than the limit
C32_Witness ==
  /\ call.op = "remaining" /\ call.ret = 0
  /\ Len(requests) > rateLimit

\* ------------------------------------------------------- remote-call order
\* the strategy of mode m would start a fetch for q in the present state of
\* the cache, the limiter and the history
GoesRemote(m, q) == strategyStart(m, q, cache, requests, recentSearches).remote

\* C33: in every state and for every query, Manual starts no fetch, Balanced
\* starts one whenever Conservative does, and Instant whenever Balanced does
C33_RemoteOrder ==
  \A q \in StratQueries :
    /\ ~GoesRemote("manual", q)
    /\ GoesRemote("conservative", q) => GoesRemote("balanced", q)
    /\ GoesRemote("balanced", q) => GoesRemote("instant", q)

\* a state in which each step of the order is strict for some query: Instant
\* alone, Instant and Balanced alone, and all three go remote
C33_Witness ==
  /\ \E q \in StratQueries : GoesRemote("instant", q) /\ ~GoesRemote("balanced", q)
  /\ \E q \in StratQueries : GoesRemote("balanced", q) /\ ~GoesRemote("conservative", q)
  /\ \E q \in StratQueries : GoesRemote("conservative", q)

\* ------------------------------------------------------------------ budget
\* the step starts a fetch: a strategy's, or the submit's
StartsFetch == ev'.kind = "dispatch" /\ nextId' = nextId + 1

\* fetches known to have been started before the step: those whose success
\* was recorded, and the one still unresolved
StartedBefore == Len(recLog) + (IF live # None THEN 1 ELSE 0)

\* C34: the fetches started within one window of the limiter never exceed
\* rateLimit, whether they fail, are aborted, overlap or are submits; with a
\* window longer than the run, a fetch may start only while fewer than
\* rateLimit were started before (the claim as stated; the limiter counts a
\* fetch only once it has succeeded, and the submit does not consult it)
C34_RequestBudget ==
  [][StartsFetch => StartedBefore + 1 <= rateLimit]_vars

\* ----------------------------------------------------------------- loading
\* no debounce timer is armed, no fetch is unresolved and no rejection of an
\* aborted fetch waits to be handled
Quiescent == timeoutRef = None /\ live = None /\ aborted = << >>

\* C35: isLoading is false whenever no search is pending or in flight: once
\* the timer of a keystroke has fired and every fetch has settled, the
\* loading indicator is off (the claim as stated; the early return of
\* performSearch for a text too short to search leaves the isLoading that
\* the keystroke set)
C35_LoadingSettles == Quiescent => ~apiResult.isLoading

\* C36: while the input is blank, after a keystroke that emptied it or after
\* clearSearch, no result is displayed: neither a timer armed earlier nor the
\* response of an earlier search brings results back (the claim as stated;
\* neither handler clears the timer, and the keystroke does not abort the
\* fetch)
C36_ClearedStaysCleared == Blank(query) => apiResult.results = << >>

\* ------------------------------------------------------ failed remote call
\* the step is the continuation of a strategy's fetch / the fetch resolved
\* and the strategy returned its result
FetchSettles == Settles /\ ev'.skind = "strategy" /\ ev'.via \in {"response", "abort"}
FetchSucceeded == ev'.source = "api" /\ ev'.error = Null

\* C37: when the fetch of a strategy rejects, by a failure or an abort, no
\* timestamp is recorded and the cache is left as it was; one timestamp is
\* recorded and the entry of the query is written exactly when the fetch
\* resolves
C37_FailedCallFrame ==
  [][FetchSettles =>
       IF FetchSucceeded
       THEN /\ ev'.via = "response"
            /\ requests' = Append(requests, now)
            /\ recLog' = Append(recLog, now)
            /\ MapHas(cache', ev'.query)
            /\ cache'[MapIndex(cache', ev'.query)].timestamp = now
            /\ ev'.applied => cache'[MapIndex(cache', ev'.query)].data = apiResult'.results
       ELSE /\ requests' = requests
            /\ recLog' = recLog
            /\ cache' = cache]_vars

\* a fetch has failed for a query whose earlier result is still in the cache
\* with its old timestamp, next to the timestamp recorded then
C37_Witness ==
  /\ ev.kind = "resolve" /\ ev.skind = "strategy" /\ ev.via = "response"
  /\ ev.error = ErrHttp /\ ev.at = now
  /\ MapHas(cache, ev.query) /\ cache[MapIndex(cache, ev.query)].timestamp < now
  /\ recLog # << >>

\* --------------------------------------------------------- cache overwrite
\* the last call was set(q, r) on a key that was in the Map
Overwrites == call.op = "set" /\ MapHas(call.pre, call.key)

C39_BalancedRateLimited ==
  [][(Exec("balanced") /\ ~CacheHit(ev'.query) /\ LimiterLimited) =>
       /\ ~StartsRemote
       /\ IF LocalResult(ev'.query) = << >>
          THEN /\ AnsweredSync("rate_limited")
               /\ apiResult'.results = << >> /\ apiResult'.error = ErrRateLimit
               /\ searchStats' = searchStats
          ELSE /\ AnsweredSync("local")
               /\ apiResult'.results = LocalResult(ev'.query)
               /\ apiResult'.error = ErrLocal
               /\ searchStats' = [searchStats EXCEPT !.localSearches = @ + 1]]_vars

\* Balanced, limited after a successful fetch, has answered another query
\* from the history
C39_Witness ==
  /\ ev.kind = "resolve" /\ ev.mode = "balanced" /\ ev.via = "sync"
  /\ ev.source = "local" /\ ev.error = ErrLocal /\ ev.applied
  /\ apiResult.results # << >>
  /\ searchStats.localSearches = 1 /\ searchStats.apiCalls = 1
  /\ LimiterLimited

====
